---- MODULE Spec2Model ----
(***************************************************************************)
(* Model of the shuaiguoer/Firefly content repository.                     *)
(*                                                                         *)
(*  - src/src/content/posts/golang/golang_errgroup.md, section 5: the Go   *)
(*    "race execution" demo (SearchData, main) built on                    *)
(*    errgroup.WithContext, g.Go and g.Wait.                               *)
(*  - the same post, section 4: a group with g.SetLimit, g.Go and g.TryGo. *)
(*  - src/src/config/profileConfig.ts and the front-matter of the post:    *)
(*    the content a site generator reads, scanned character by character.  *)
(*                                                                         *)
(* golang.org/x/sync/errgroup is a library the post uses and describes;    *)
(* its operations follow the post's description of them.                   *)
(*                                                                         *)
(* Timing assumption of the demo model: a computation step takes no        *)
(* measurable time compared with the second-scale delays of the tasks, so  *)
(* the clock advances only when every goroutine is blocked (on a timer,    *)
(* on the WaitGroup or on the channel).  Goroutines that become runnable   *)
(* at the same instant interleave in any order.                            *)
(***************************************************************************)
EXTENDS Integers, Sequences, FiniteSets

VARIABLES
    \* ---- the race-execution demo -------------------------------------
    tasks,       \* the task list of main: index -> [d: delay, f: willFail]
    now,         \* wall-clock time in seconds since main started
    mainPc,      \* position of the main goroutine
    nextTask,    \* index of the next task the for-loop of main launches
    tpc,         \* position of each task goroutine
    deadline,    \* when the time.After timer of each task fires
    res,         \* local res of each g.Go closure
    err,         \* local err of each g.Go closure
    ctxDone,     \* the errgroup context is cancelled
    gErr,        \* g.err, written once under errOnce
    wgCount,     \* g.wg: goroutines started by g.Go that are not done
    waiterPc,    \* position of the goroutine that calls g.Wait
    waitErr,     \* what g.Wait returned
    resultChan,  \* buffer of resultChan
    chanClosed,  \* resultChan has been closed
    finalRes,    \* main: finalRes
    ok,          \* main: ok
    panicked,    \* a goroutine panicked (the process is gone)
    events,      \* history: the lines printed so far, in order, and the
                 \* return of g.Wait and the close of resultChan among them
    retAt,       \* history: when SearchData returned in each task (-1: not yet)
    firstErr,    \* history: the first non-nil error a g.Go closure returned
    sent,        \* history: the tasks whose send on resultChan went through
    \* ---- a group with a limit (section 4) -----------------------------
    limit,       \* the n of the last g.SetLimit(n); 0 on a fresh group
    sem,         \* tokens held in g.sem
    running,     \* functions started by g.Go or g.TryGo that are not done
    cpc,         \* position of each caller
    lastTry,     \* history: the last g.TryGo of each caller
    gPanicked,   \* g.SetLimit panicked (the process is gone)
    \* ---- reading the content ----------------------------------------
    doc,         \* which text is being read (an index of Documents)
    pos,         \* characters of it read so far
    st,          \* state of the recogniser
    acc,         \* the icon set, or the front-matter key, read so far
    val,         \* the front-matter value read so far
    verdict      \* the classes of the texts read so far, in order

demoVars == <<tasks, now, mainPc, nextTask, tpc, deadline, res, err, ctxDone,
              gErr, wgCount, waiterPc, waitErr, resultChan, chanClosed,
              finalRes, ok, panicked, events, retAt, firstErr, sent>>

mainVars == <<mainPc, nextTask, finalRes, ok>>
taskVars == <<tpc, deadline, res, err>>
groupVars == <<ctxDone, gErr, wgCount>>
waiterVars == <<waiterPc, waitErr>>
chanVars == <<resultChan, chanClosed>>
histVars == <<events, retAt, firstErr, sent>>

limitVars == <<limit, sem, running, cpc, lastTry, gPanicked>>

lintVars == <<doc, pos, st, acc, val, verdict>>

vars == <<demoVars, limitVars, lintVars>>

(***************************************************************************)
(* The race-execution demo                                                 *)
(***************************************************************************)

\* the three entries of the tasks slice
NTasks == 3
\* capacity of resultChan: make(chan string, 1)
ChanCap == 1

Tasks == 1..NTasks

\* the delays the task list uses, in seconds
Delays == {1, 3, 5}

\* the task list as written: Service-A 3s ok, Service-B 1s fails, Service-C 5s ok
TasksAsWritten ==
    <<[d |-> 3, f |-> FALSE], [d |-> 1, f |-> TRUE], [d |-> 5, f |-> FALSE]>>

\* values: a pair <<kind, task>>
Nil == <<"nil", 0>>
\* errors.New(name + " 发生故障")
Fault(i) == <<"fault", i>>
\* ctx.Err() of a cancelled context (context.Canceled)
Canceled == <<"canceled", 0>>
\* name + " 获取成功"
Found(i) == <<"found", i>>
\* the empty string
Empty == <<"empty", 0>>

Event(e, i, v) == [ev |-> e, task |-> i, val |-> v, at |-> now]

Alive == mainPc # "exited" /\ ~panicked

\* nothing is being read
LintIdle ==
    /\ doc = 0
    /\ pos = 0
    /\ st = "start"
    /\ acc = <<>>
    /\ val = <<>>
    /\ verdict = <<>>

\* section 5 is not running
DemoIdle ==
    /\ tasks = <<>>
    /\ now = 0
    /\ mainPc = "idle"
    /\ nextTask = 0
    /\ tpc = <<>>
    /\ deadline = <<>>
    /\ res = <<>>
    /\ err = <<>>
    /\ ctxDone = FALSE
    /\ gErr = Nil
    /\ wgCount = 0
    /\ waiterPc = "idle"
    /\ waitErr = Nil
    /\ resultChan = <<>>
    /\ chanClosed = FALSE
    /\ finalRes = Empty
    /\ ok = FALSE
    /\ panicked = FALSE
    /\ events = <<>>
    /\ retAt = <<>>
    /\ firstErr = Nil
    /\ sent = {}

\* the demo sets no limit on its group and makes no other call on it
LimitIdle ==
    /\ limit = 0
    /\ sem = 0
    /\ running = 0
    /\ cpc = <<>>
    /\ lastTry = <<>>
    /\ gPanicked = FALSE

DemoInit ==
    /\ LimitIdle
    /\ LintIdle
    /\ tasks \in [Tasks -> [d : Delays, f : BOOLEAN]]
    /\ now = 0
    /\ mainPc = "loop"
    /\ nextTask = 1
    /\ tpc = [i \in Tasks |-> "idle"]
    /\ deadline = [i \in Tasks |-> 0]
    /\ res = [i \in Tasks |-> Empty]
    /\ err = [i \in Tasks |-> Nil]
    /\ ctxDone = FALSE
    /\ gErr = Nil
    /\ wgCount = 0
    /\ waiterPc = "idle"
    /\ waitErr = Nil
    /\ resultChan = <<>>
    /\ chanClosed = FALSE
    /\ finalRes = Empty
    /\ ok = FALSE
    /\ panicked = FALSE
    /\ events = <<>>
    /\ retAt = [i \in Tasks |-> -1]
    /\ firstErr = Nil
    /\ sent = {}

\* main, one iteration of the for-loop: tt := t; g.Go(func() error {...})
MainGo ==
    /\ Alive
    /\ mainPc = "loop"
    /\ nextTask <= NTasks
    /\ wgCount' = wgCount + 1
    /\ tpc' = [tpc EXCEPT ![nextTask] = "start"]
    /\ nextTask' = nextTask + 1
    /\ UNCHANGED <<tasks, now, mainPc, finalRes, ok, deadline, res, err,
                   ctxDone, gErr, waiterVars, chanVars, panicked, histVars,
                   limitVars, lintVars>>

\* main: go func() { g.Wait() ... close(resultChan) }()
MainSpawnWaiter ==
    /\ Alive
    /\ mainPc = "loop"
    /\ nextTask > NTasks
    /\ waiterPc' = "wait"
    /\ mainPc' = "recv"
    /\ UNCHANGED <<tasks, now, nextTask, finalRes, ok, taskVars, groupVars,
                   waitErr, chanVars, panicked, histVars,
                   limitVars, lintVars>>

\* SearchData: the start line is printed and the select is entered, which
\* evaluates time.After(delay)
TaskStart(i) ==
    /\ Alive
    /\ tpc[i] = "start"
    /\ events' = Append(events, Event("start", i, Nil))
    /\ deadline' = [deadline EXCEPT ![i] = now + tasks[i].d]
    /\ tpc' = [tpc EXCEPT ![i] = "select"]
    /\ UNCHANGED <<tasks, now, mainVars, res, err, groupVars, waiterVars,
                   chanVars, panicked, retAt, firstErr, sent,
                   limitVars, lintVars>>

\* SearchData, case <-time.After(delay): the task ran to its full delay and
\* returns ("", error) when willFail, (name + " 获取成功", nil) otherwise;
\* the closure then tests err == nil
TaskTimer(i) ==
    /\ Alive
    /\ tpc[i] = "select"
    /\ now >= deadline[i]
    /\ IF tasks[i].f
          THEN /\ res' = [res EXCEPT ![i] = Empty]
               /\ err' = [err EXCEPT ![i] = Fault(i)]
               /\ tpc' = [tpc EXCEPT ![i] = "return"]
          ELSE /\ res' = [res EXCEPT ![i] = Found(i)]
               /\ err' = [err EXCEPT ![i] = Nil]
               /\ tpc' = [tpc EXCEPT ![i] = "send"]
    /\ retAt' = [retAt EXCEPT ![i] = now]
    /\ UNCHANGED <<tasks, now, mainVars, deadline, groupVars, waiterVars,
                   chanVars, panicked, events, firstErr, sent,
                   limitVars, lintVars>>

\* SearchData, case <-ctx.Done(): the cancel line is printed and
\* ("", ctx.Err()) is returned
TaskCtxDone(i) ==
    /\ Alive
    /\ tpc[i] = "select"
    /\ ctxDone
    /\ res' = [res EXCEPT ![i] = Empty]
    /\ err' = [err EXCEPT ![i] = Canceled]
    /\ tpc' = [tpc EXCEPT ![i] = "return"]
    /\ events' = Append(events, Event("cancelled", i, Canceled))
    /\ retAt' = [retAt EXCEPT ![i] = now]
    /\ UNCHANGED <<tasks, now, mainVars, deadline, groupVars, waiterVars,
                   chanVars, panicked, firstErr, sent,
                   limitVars, lintVars>>

\* TaskSend without the default case: a plain resultChan <- res
TaskSendBlocking(i) ==
    /\ Alive
    /\ tpc[i] = "send"
    /\ IF chanClosed
          THEN /\ panicked' = TRUE
               /\ UNCHANGED <<resultChan, sent, tpc>>
          ELSE /\ Len(resultChan) < ChanCap
               /\ resultChan' = Append(resultChan, res[i])
               /\ sent' = sent \cup {i}
               /\ tpc' = [tpc EXCEPT ![i] = "return"]
               /\ UNCHANGED panicked
    /\ UNCHANGED <<tasks, now, mainVars, deadline, res, err, groupVars,
                   waiterVars, chanClosed, events, retAt, firstErr,
                   limitVars, lintVars>>

\* the closure: select { case resultChan <- res: default: }
\* (a send on a closed channel panics, also inside a select)
TaskSend(i) ==
    /\ Alive
    /\ tpc[i] = "send"
    /\ IF chanClosed
          THEN /\ panicked' = TRUE
               /\ UNCHANGED <<resultChan, sent, tpc>>
          ELSE /\ IF Len(resultChan) < ChanCap
                     THEN /\ resultChan' = Append(resultChan, res[i])
                          /\ sent' = sent \cup {i}
                     ELSE UNCHANGED <<resultChan, sent>>
               /\ tpc' = [tpc EXCEPT ![i] = "return"]
               /\ UNCHANGED panicked
    /\ UNCHANGED <<tasks, now, mainVars, deadline, res, err, groupVars,
                   waiterVars, chanClosed, events, retAt, firstErr,
                   limitVars, lintVars>>

\* TaskReturn with errOnce left out: every non-nil error overwrites g.err
TaskReturnLastErrorWins(i) ==
    /\ Alive
    /\ tpc[i] = "return"
    /\ IF err[i] # Nil
          THEN /\ gErr' = err[i]
               /\ ctxDone' = TRUE
          ELSE UNCHANGED <<gErr, ctxDone>>
    /\ firstErr' = IF firstErr = Nil THEN err[i] ELSE firstErr
    /\ tpc' = [tpc EXCEPT ![i] = "exit"]
    /\ UNCHANGED <<tasks, now, mainVars, deadline, res, err, wgCount,
                   waiterVars, chanVars, panicked, events, retAt, sent,
                   limitVars, lintVars>>

\* TaskReturn with the cancel left out: the error is kept, the context lives
TaskReturnNoCancel(i) ==
    /\ Alive
    /\ tpc[i] = "return"
    /\ IF err[i] # Nil /\ gErr = Nil
          THEN gErr' = err[i]
          ELSE UNCHANGED gErr
    /\ firstErr' = IF firstErr = Nil THEN err[i] ELSE firstErr
    /\ tpc' = [tpc EXCEPT ![i] = "exit"]
    /\ UNCHANGED <<tasks, now, mainVars, deadline, res, err, ctxDone, wgCount,
                   waiterVars, chanVars, panicked, events, retAt, sent,
                   limitVars, lintVars>>

\* the closure returns err to errgroup: the first non-nil error is kept
\* (errOnce) and cancels the context
TaskReturn(i) ==
    /\ Alive
    /\ tpc[i] = "return"
    /\ IF err[i] # Nil /\ gErr = Nil
          THEN /\ gErr' = err[i]
               /\ ctxDone' = TRUE
          ELSE UNCHANGED <<gErr, ctxDone>>
    /\ firstErr' = IF firstErr = Nil THEN err[i] ELSE firstErr
    /\ tpc' = [tpc EXCEPT ![i] = "exit"]
    /\ UNCHANGED <<tasks, now, mainVars, deadline, res, err, wgCount,
                   waiterVars, chanVars, panicked, events, retAt, sent,
                   limitVars, lintVars>>

\* errgroup, after the closure returned: g.wg.Done()
TaskDone(i) ==
    /\ Alive
    /\ tpc[i] = "exit"
    /\ wgCount' = wgCount - 1
    /\ tpc' = [tpc EXCEPT ![i] = "done"]
    /\ UNCHANGED <<tasks, now, mainVars, deadline, res, err, ctxDone, gErr,
                   waiterVars, chanVars, panicked, histVars,
                   limitVars, lintVars>>

\* WaiterWait that does not wait for the goroutines of the group
WaiterWaitNoBarrier ==
    /\ Alive
    /\ waiterPc = "wait"
    /\ ctxDone' = TRUE
    /\ waitErr' = gErr
    /\ events' = Append(events, Event("waitReturned", 0, gErr))
    /\ waiterPc' = IF gErr # Nil THEN "print" ELSE "close"
    /\ UNCHANGED <<tasks, now, mainVars, taskVars, gErr, wgCount, chanVars,
                   panicked, retAt, firstErr, sent, limitVars, lintVars>>

\* g.Wait(): blocks until every goroutine of the group is done, cancels the
\* context and returns g.err; the caller then tests err != nil
WaiterWait ==
    /\ Alive
    /\ waiterPc = "wait"
    /\ wgCount = 0
    /\ ctxDone' = TRUE
    /\ waitErr' = gErr
    /\ events' = Append(events, Event("waitReturned", 0, gErr))
    /\ waiterPc' = IF gErr # Nil THEN "print" ELSE "close"
    /\ UNCHANGED <<tasks, now, mainVars, taskVars, gErr, wgCount, chanVars,
                   panicked, retAt, firstErr, sent,
                   limitVars, lintVars>>

\* fmt.Printf("\n📢 Wait() 最终捕获错误: %v\n", err)
WaiterPrint ==
    /\ Alive
    /\ waiterPc = "print"
    /\ events' = Append(events, Event("waitError", 0, waitErr))
    /\ waiterPc' = "close"
    /\ UNCHANGED <<tasks, now, mainVars, taskVars, groupVars, waitErr,
                   chanVars, panicked, retAt, firstErr, sent,
                   limitVars, lintVars>>

\* close(resultChan)  (closing a closed channel panics)
WaiterClose ==
    /\ Alive
    /\ waiterPc = "close"
    /\ IF chanClosed
          THEN /\ panicked' = TRUE
               /\ UNCHANGED <<chanClosed, events, waiterPc>>
          ELSE /\ chanClosed' = TRUE
               /\ events' = Append(events, Event("closed", 0, Nil))
               /\ waiterPc' = "done"
               /\ UNCHANGED panicked
    /\ UNCHANGED <<tasks, now, mainVars, taskVars, groupVars, waitErr,
                   resultChan, retAt, firstErr, sent,
                   limitVars, lintVars>>

\* MainRecv that takes a closed channel for an empty one
MainRecvClosedFirst ==
    /\ Alive
    /\ mainPc = "recv"
    /\ IF chanClosed
          THEN /\ finalRes' = Empty
               /\ ok' = FALSE
               /\ UNCHANGED resultChan
          ELSE /\ Len(resultChan) > 0
               /\ finalRes' = Head(resultChan)
               /\ ok' = TRUE
               /\ resultChan' = Tail(resultChan)
    /\ mainPc' = "print"
    /\ UNCHANGED <<tasks, now, nextTask, taskVars, groupVars, waiterVars,
                   chanClosed, panicked, histVars, limitVars, lintVars>>

\* main: finalRes, ok := <-resultChan
\* a buffered value is received, also from a closed channel; a closed and
\* empty channel yields ("", false); otherwise main blocks
MainRecv ==
    /\ Alive
    /\ mainPc = "recv"
    /\ IF Len(resultChan) > 0
          THEN /\ finalRes' = Head(resultChan)
               /\ ok' = TRUE
               /\ resultChan' = Tail(resultChan)
          ELSE /\ chanClosed
               /\ finalRes' = Empty
               /\ ok' = FALSE
               /\ UNCHANGED resultChan
    /\ mainPc' = "print"
    /\ UNCHANGED <<tasks, now, nextTask, taskVars, groupVars, waiterVars,
                   chanClosed, panicked, histVars,
                   limitVars, lintVars>>

\* main: the if/else that prints one of the two final lines
MainPrint ==
    /\ Alive
    /\ mainPc = "print"
    /\ events' = Append(events, IF ok THEN Event("mainResult", 0, finalRes)
                                      ELSE Event("mainFailed", 0, Nil))
    /\ mainPc' = "return"
    /\ UNCHANGED <<tasks, now, nextTask, finalRes, ok, taskVars, groupVars,
                   waiterVars, chanVars, panicked, retAt, firstErr, sent,
                   limitVars, lintVars>>

\* main returns: the process exits and takes every goroutine with it
MainExit ==
    /\ Alive
    /\ mainPc = "return"
    /\ mainPc' = "exited"
    /\ UNCHANGED <<tasks, now, nextTask, finalRes, ok, taskVars, groupVars,
                   waiterVars, chanVars, panicked, histVars,
                   limitVars, lintVars>>

\* a goroutine can take a step without the clock advancing
TaskRunnable(i) ==
    \/ tpc[i] \in {"start", "send", "return", "exit"}
    \/ tpc[i] = "select" /\ (ctxDone \/ now >= deadline[i])

MainRunnable ==
    \/ mainPc \in {"loop", "print", "return"}
    \/ mainPc = "recv" /\ (Len(resultChan) > 0 \/ chanClosed)

WaiterRunnable ==
    \/ waiterPc \in {"print", "close"}
    \/ waiterPc = "wait" /\ wgCount = 0

PendingTimers == {i \in Tasks : tpc[i] = "select"}

\* time passes: every goroutine is blocked, and the clock moves to the next
\* timer that fires
Tick ==
    /\ Alive
    /\ ~MainRunnable
    /\ ~WaiterRunnable
    /\ \A i \in Tasks : ~TaskRunnable(i)
    /\ PendingTimers # {}
    /\ \E i \in PendingTimers :
          /\ \A j \in PendingTimers : deadline[i] <= deadline[j]
          /\ now' = deadline[i]
    /\ UNCHANGED <<tasks, mainVars, taskVars, groupVars, waiterVars,
                   chanVars, panicked, histVars, limitVars, lintVars>>

DemoNext ==
    \/ MainGo
    \/ MainSpawnWaiter
    \/ MainRecv
    \/ MainPrint
    \/ MainExit
    \/ \E i \in Tasks : TaskStart(i)
    \/ \E i \in Tasks : TaskTimer(i)
    \/ \E i \in Tasks : TaskCtxDone(i)
    \/ \E i \in Tasks : TaskSend(i)
    \/ \E i \in Tasks : TaskReturn(i)
    \/ \E i \in Tasks : TaskDone(i)
    \/ WaiterWait
    \/ WaiterPrint
    \/ WaiterClose
    \/ Tick

DemoSpec == DemoInit /\ [][DemoNext]_vars

\* the Go scheduler runs every runnable goroutine and timers fire
FairDemoSpec == DemoSpec /\ WF_vars(DemoNext)

(***************************************************************************)
(* A group with a limit: g.SetLimit, g.Go, g.TryGo (section 4)             *)
(***************************************************************************)

\* callers that use the group at the same time
NCallers == 3
\* the limits g.SetLimit is called with are 1..MaxLimit
MaxLimit == 2

Callers == 1..NCallers
NoTry == [made |-> FALSE, free |-> FALSE, started |-> FALSE]

\* a fresh errgroup.Group: no limit set, nothing started
LimitInit ==
    /\ DemoIdle
    /\ LintIdle
    /\ limit = 0
    /\ sem = 0
    /\ running = 0
    /\ cpc = [c \in Callers |-> "idle"]
    /\ lastTry = [c \in Callers |-> NoTry]
    /\ gPanicked = FALSE

\* g.SetLimit(n): the limit must not be modified while goroutines of the
\* group are active (the library panics); otherwise g.sem is made anew with
\* capacity n.  handleSeckillRequest makes this call on every request.
SetLimit(c, n) ==
    /\ ~gPanicked
    /\ cpc[c] = "idle"
    /\ IF sem # 0
          THEN /\ gPanicked' = TRUE
               /\ UNCHANGED <<limit, sem>>
          ELSE /\ limit' = n
               /\ sem' = 0
               /\ UNCHANGED gPanicked
    /\ UNCHANGED <<running, cpc, lastTry, demoVars, lintVars>>

\* a caller enters g.Go(f) or g.TryGo(f); every use in the article sets the
\* limit first
Call(c, op) ==
    /\ ~gPanicked
    /\ cpc[c] = "idle"
    /\ limit > 0
    /\ cpc' = [cpc EXCEPT ![c] = op]
    /\ UNCHANGED <<limit, sem, running, lastTry, gPanicked, demoVars, lintVars>>

\* g.Go(f): g.sem <- token{} blocks while n tokens are held; then f is started
\* in a new goroutine and g.Go returns
Go(c) ==
    /\ ~gPanicked
    /\ cpc[c] = "Go"
    /\ sem < limit
    /\ sem' = sem + 1
    /\ running' = running + 1
    /\ cpc' = [cpc EXCEPT ![c] = "idle"]
    /\ UNCHANGED <<limit, lastTry, gPanicked, demoVars, lintVars>>

\* TryGo that waits for a token the way g.Go does
TryGoBlocking(c) ==
    /\ ~gPanicked
    /\ cpc[c] = "TryGo"
    /\ sem < limit
    /\ sem' = sem + 1
    /\ running' = running + 1
    /\ cpc' = [cpc EXCEPT ![c] = "idle"]
    /\ lastTry' = [lastTry EXCEPT ![c] =
                      [made |-> TRUE, free |-> running < limit,
                       started |-> running' = running + 1]]
    /\ UNCHANGED <<limit, gPanicked, demoVars, lintVars>>

\* g.TryGo(f): select { case g.sem <- token{}: default: return false };
\* with a token f is started and true is returned.  On false the caller goes
\* to its fallback (return fallback(), return errors.New("系统繁忙...")).
TryGo(c) ==
    /\ ~gPanicked
    /\ cpc[c] = "TryGo"
    /\ IF sem < limit
          THEN /\ sem' = sem + 1
               /\ running' = running + 1
               /\ cpc' = [cpc EXCEPT ![c] = "idle"]
          ELSE /\ UNCHANGED <<sem, running>>
               /\ cpc' = [cpc EXCEPT ![c] = "fallback"]
    /\ lastTry' = [lastTry EXCEPT ![c] =
                      [made |-> TRUE, free |-> running < limit,
                       started |-> running' = running + 1]]
    /\ UNCHANGED <<limit, gPanicked, demoVars, lintVars>>

\* the fallback of a caller whose g.TryGo returned false
Fallback(c) ==
    /\ ~gPanicked
    /\ cpc[c] = "fallback"
    /\ cpc' = [cpc EXCEPT ![c] = "idle"]
    /\ UNCHANGED <<limit, sem, running, lastTry, gPanicked, demoVars, lintVars>>

\* a started function returns and its goroutine gives its token back
\* (g.done: <-g.sem)
Finish ==
    /\ ~gPanicked
    /\ running > 0
    /\ running' = running - 1
    /\ sem' = sem - 1
    /\ UNCHANGED <<limit, cpc, lastTry, gPanicked, demoVars, lintVars>>

LimitNext ==
    \/ \E c \in Callers, n \in 1..MaxLimit : SetLimit(c, n)
    \/ \E c \in Callers, op \in {"Go", "TryGo"} : Call(c, op)
    \/ \E c \in Callers : Go(c)
    \/ \E c \in Callers : TryGo(c)
    \/ \E c \in Callers : Fallback(c)
    \/ Finish

LimitSpec == LimitInit /\ [][LimitNext]_vars

\* C6: after g.SetLimit(n) at most n functions started through g.Go or
\* g.TryGo are running; a caller inside g.TryGo can always take its step
\* (it never blocks), and its last g.TryGo started the function and returned
\* true exactly when fewer than n were running, and otherwise started
\* nothing and left the caller at its fallback, which it can run at once.
C6_LimitHoldsTryGoNeverBlocks ==
    /\ limit > 0 => running <= limit
    /\ \A c \in Callers :
          /\ (~gPanicked /\ cpc[c] = "TryGo") => ENABLED TryGo(c)
          /\ (~gPanicked /\ cpc[c] = "fallback") =>
                (ENABLED Fallback(c) /\ ~lastTry[c].started)
          /\ lastTry[c].made => (lastTry[c].started <=> lastTry[c].free)

C6_Witness ==
    /\ running = limit
    /\ limit = MaxLimit
    /\ \E c, d \in Callers :
          /\ cpc[c] = "fallback" /\ ~lastTry[c].free
          /\ cpc[d] = "Go"

(***************************************************************************)
(* Properties of the demo                                                  *)
(***************************************************************************)

Printed(e) == {k \in 1..Len(events) : events[k].ev = e}
PrintedFor(e, i) == {k \in Printed(e) : events[k].task = i}

\* the closure of task i has returned to errgroup
Returned(i) == tpc[i] \in {"exit", "done"}
\* SearchData returned without error in task i
Succeeded(i) == retAt[i] >= 0 /\ err[i] = Nil
\* SearchData returned an error in task i
Failed(i) == retAt[i] >= 0 /\ err[i] # Nil
WaitReturned == waiterPc \in {"print", "close", "done"}
MainPrinted == mainPc \in {"return", "exited"}

\* C4: with errgroup.WithContext, once a g.Go closure has returned a non-nil
\* error the context is cancelled; and what g.Wait returns is the first
\* non-nil error a closure returned: never the ctx.Err() of a task that left
\* because of the cancellation, and no error is earlier in time.
C4_FirstErrorCancelsAndWins ==
    /\ \A i \in Tasks : (Returned(i) /\ err[i] # Nil) => ctxDone
    /\ WaitReturned =>
          /\ waitErr = firstErr
          /\ waitErr # Canceled
          /\ \A j \in Tasks : waitErr = Fault(j) =>
                \A k \in Tasks : Failed(k) => retAt[j] <= retAt[k]

C4_Witness ==
    /\ WaitReturned
    /\ \E j, k \in Tasks : waitErr = Fault(j) /\ Returned(k) /\ err[k] = Canceled

\* C5: as soon as one task has finished, with or without an error, every
\* other task that is still in its select is cancelled (its ctx.Done() case
\* is ready).
C5_AnyFinishCancelsOthers ==
    \A i, j \in Tasks :
        (i # j /\ Returned(i) /\ tpc[j] = "select") => ctxDone

\* C7: with the task list as written, every run ends with Service-B's error
\* returned first (at 1s), Service-A and Service-C gone through ctx.Done()
\* without sending, g.Wait returning Service-B's error, resultChan closed and
\* empty, and main printing the failure line last.
C7_AsWrittenOutcome ==
    (tasks = TasksAsWritten /\ mainPc = "exited") =>
        /\ firstErr = Fault(2) /\ retAt[2] = 1
        /\ err[1] = Canceled /\ err[3] = Canceled /\ sent = {}
        /\ retAt[1] = 1 /\ retAt[3] = 1
        /\ waitErr = Fault(2)
        /\ chanClosed /\ resultChan = <<>>
        /\ ~ok
        /\ Len(events) = 9
        /\ \A k \in 1..3 : events[k].ev = "start"
        /\ {events[4], events[5]} =
              {[ev |-> "cancelled", task |-> 1, val |-> Canceled, at |-> 1],
               [ev |-> "cancelled", task |-> 3, val |-> Canceled, at |-> 1]}
        /\ events[6] = [ev |-> "waitReturned", task |-> 0, val |-> Fault(2), at |-> 1]
        /\ events[7] = [ev |-> "waitError", task |-> 0, val |-> Fault(2), at |-> 1]
        /\ events[8].ev = "closed"
        /\ events[9].ev = "mainFailed"

C7_Witness == tasks = TasksAsWritten /\ mainPc = "exited"

\* C8: a task at the send on resultChan can always take its step (the select
\* has a default), no state short of main's exit is stuck, nothing panics,
\* main prints exactly one of its two final lines, and main always exits.
C8_NoBlockedSendMainExits ==
    /\ [](\A i \in Tasks : (Alive /\ tpc[i] = "send") => ENABLED TaskSend(i))
    /\ [](Alive => ENABLED DemoNext)
    /\ [](~panicked)
    /\ [](Cardinality(Printed("mainResult") \cup Printed("mainFailed")) =
             IF MainPrinted THEN 1 ELSE 0)
    /\ <>(mainPc = "exited")

C8_Witness ==
    /\ mainPc = "exited"
    /\ \E i, j \in Tasks : i # j /\ i \in sent /\ Succeeded(j) /\ Returned(j)

\* C9: when main has printed the failure line, every task goroutine is done
\* and each cancelled one printed its cancel line before g.Wait returned;
\* g.Wait returned (with every task done), then its error line was printed,
\* then resultChan was closed, and only then came main's line.
C9_FailureLineOrder ==
    /\ WaitReturned => \A i \in Tasks : tpc[i] = "done"
    /\ \A m \in Printed("mainFailed") :
          /\ \A i \in Tasks : tpc[i] = "done"
          /\ \E w \in Printed("waitReturned"), e \in Printed("waitError"),
                c \in Printed("closed") :
                /\ w < e /\ e < c /\ c < m
                /\ \A i \in Tasks : err[i] = Canceled =>
                      \E k \in PrintedFor("cancelled", i) : k < w

C9_Witness ==
    /\ Printed("mainFailed") # {}
    /\ \E i \in Tasks : err[i] = Canceled

\* C10: once main has printed, it printed a result exactly when some task's
\* SearchData returned without error, and the result is that of a task no
\* other successful task preceded in time; no send hits a closed channel.
C10_ResultIffSuccess ==
    /\ ~panicked
    /\ MainPrinted =>
          /\ ok <=> (\E i \in Tasks : Succeeded(i))
          /\ Printed("mainResult") # {} <=> ok
          /\ Printed("mainFailed") # {} <=> ~ok
          /\ ok => \E j \in Tasks :
                      /\ finalRes = Found(j)
                      /\ Succeeded(j)
                      /\ \A k \in Tasks : Succeeded(k) => retAt[j] <= retAt[k]

C10_Witness ==
    /\ MainPrinted /\ ok
    /\ \E j, k \in Tasks : j # k /\ Succeeded(j) /\ Failed(k)

(***************************************************************************)
(* The content the site generator reads: profileConfig and the front-matter *)
(***************************************************************************)

Letter ==
    {"a", "b", "c", "d", "e", "f", "g", "h", "i", "j", "k", "l", "m", "n",
       "o", "p", "q", "r", "s", "t", "u", "v", "w", "x", "y", "z",
     "A", "B", "C", "D", "E", "F", "G", "H", "I", "J", "K", "L", "M", "N",
       "O", "P", "Q", "R", "S", "T", "U", "V", "W", "X", "Y", "Z"}

Digit == {"0", "1", "2", "3", "4", "5", "6", "7", "8", "9"}

\* profileConfig.links with the colon of the GitHub url lost
LinksColonLost ==
    <<[name |-> "Bilibli",
       \* "fa6-brands:bilibili"
       icon |-> <<"f", "a", "6", "-", "b", "r", "a", "n", "d", "s", ":", "b",
                  "i", "l", "i", "b", "i", "l", "i">>,
       \* "https://space.bilibili.com/118791472"
       url |-> <<"h", "t", "t", "p", "s", ":", "/", "/", "s", "p", "a", "c",
                  "e", ".", "b", "i", "l", "i", "b", "i", "l", "i", ".", "c",
                  "o", "m", "/", "1", "1", "8", "7", "9", "1", "4", "7", "2">>,
       showName |-> FALSE],
      [name |-> "GitHub",
       \* "fa6-brands:github"
       icon |-> <<"f", "a", "6", "-", "b", "r", "a", "n", "d", "s", ":", "g",
                  "i", "t", "h", "u", "b">>,
       \* "https//github.com/shuaiguoer"
       url |-> <<"h", "t", "t", "p", "s", "/", "/", "g", "i", "t", "h", "u",
                  "b", ".", "c", "o", "m", "/", "s", "h", "u", "a", "i", "g",
                  "u", "o", "e", "r">>,
       showName |-> FALSE],
      [name |-> "Email",
       \* "fa6-solid:envelope"
       icon |-> <<"f", "a", "6", "-", "s", "o", "l", "i", "d", ":", "e", "n",
                  "v", "e", "l", "o", "p", "e">>,
       \* "ls12345666@qq.com"
       url |-> <<"l", "s", "1", "2", "3", "4", "5", "6", "6", "6", "@", "q",
                  "q", ".", "c", "o", "m">>,
       showName |-> FALSE],
      [name |-> "RSS",
       \* "fa6-solid:rss"
       icon |-> <<"f", "a", "6", "-", "s", "o", "l", "i", "d", ":", "r", "s",
                  "s">>,
       \* "/rss/"
       url |-> <<"/", "r", "s", "s", "/">>,
       showName |-> FALSE]>>

\* profileConfig.links with the Email icon taken from a set that is not installed
LinksUnknownIconSet ==
    <<[name |-> "Bilibli",
       \* "fa6-brands:bilibili"
       icon |-> <<"f", "a", "6", "-", "b", "r", "a", "n", "d", "s", ":", "b",
                  "i", "l", "i", "b", "i", "l", "i">>,
       \* "https://space.bilibili.com/118791472"
       url |-> <<"h", "t", "t", "p", "s", ":", "/", "/", "s", "p", "a", "c",
                  "e", ".", "b", "i", "l", "i", "b", "i", "l", "i", ".", "c",
                  "o", "m", "/", "1", "1", "8", "7", "9", "1", "4", "7", "2">>,
       showName |-> FALSE],
      [name |-> "GitHub",
       \* "fa6-brands:github"
       icon |-> <<"f", "a", "6", "-", "b", "r", "a", "n", "d", "s", ":", "g",
                  "i", "t", "h", "u", "b">>,
       \* "https://github.com/shuaiguoer"
       url |-> <<"h", "t", "t", "p", "s", ":", "/", "/", "g", "i", "t", "h",
                  "u", "b", ".", "c", "o", "m", "/", "s", "h", "u", "a", "i",
                  "g", "u", "o", "e", "r">>,
       showName |-> FALSE],
      [name |-> "Email",
       \* "fa-solid:envelope"
       icon |-> <<"f", "a", "-", "s", "o", "l", "i", "d", ":", "e", "n", "v",
                  "e", "l", "o", "p", "e">>,
       \* "ls12345666@qq.com"
       url |-> <<"l", "s", "1", "2", "3", "4", "5", "6", "6", "6", "@", "q",
                  "q", ".", "c", "o", "m">>,
       showName |-> FALSE],
      [name |-> "RSS",
       \* "fa6-solid:rss"
       icon |-> <<"f", "a", "6", "-", "s", "o", "l", "i", "d", ":", "r", "s",
                  "s">>,
       \* "/rss/"
       url |-> <<"/", "r", "s", "s", "/">>,
       showName |-> FALSE]>>

\* profileConfig.links, in display order; icon and url are kept character by
\* character (a character outside ASCII is named by its code point)
Links ==
    <<[name |-> "Bilibli",
       \* "fa6-brands:bilibili"
       icon |-> <<"f", "a", "6", "-", "b", "r", "a", "n", "d", "s", ":", "b",
                  "i", "l", "i", "b", "i", "l", "i">>,
       \* "https://space.bilibili.com/118791472"
       url |-> <<"h", "t", "t", "p", "s", ":", "/", "/", "s", "p", "a", "c",
                  "e", ".", "b", "i", "l", "i", "b", "i", "l", "i", ".", "c",
                  "o", "m", "/", "1", "1", "8", "7", "9", "1", "4", "7", "2">>,
       showName |-> FALSE],
      [name |-> "GitHub",
       \* "fa6-brands:github"
       icon |-> <<"f", "a", "6", "-", "b", "r", "a", "n", "d", "s", ":", "g",
                  "i", "t", "h", "u", "b">>,
       \* "https://github.com/shuaiguoer"
       url |-> <<"h", "t", "t", "p", "s", ":", "/", "/", "g", "i", "t", "h",
                  "u", "b", ".", "c", "o", "m", "/", "s", "h", "u", "a", "i",
                  "g", "u", "o", "e", "r">>,
       showName |-> FALSE],
      [name |-> "Email",
       \* "fa6-solid:envelope"
       icon |-> <<"f", "a", "6", "-", "s", "o", "l", "i", "d", ":", "e", "n",
                  "v", "e", "l", "o", "p", "e">>,
       \* "ls12345666@qq.com"
       url |-> <<"l", "s", "1", "2", "3", "4", "5", "6", "6", "6", "@", "q",
                  "q", ".", "c", "o", "m">>,
       showName |-> FALSE],
      [name |-> "RSS",
       \* "fa6-solid:rss"
       icon |-> <<"f", "a", "6", "-", "s", "o", "l", "i", "d", ":", "r", "s",
                  "s">>,
       \* "/rss/"
       url |-> <<"/", "r", "s", "s", "/">>,
       showName |-> FALSE]>>

\* the icon sets the configuration names as preinstalled:
\* fa6-brands, fa6-regular, fa6-solid, material-symbols, simple-icons
PreinstalledIconSets ==
    {<<"f", "a", "6", "-", "b", "r", "a", "n", "d", "s">>,
     <<"f", "a", "6", "-", "r", "e", "g", "u", "l", "a", "r">>,
     <<"f", "a", "6", "-", "s", "o", "l", "i", "d">>,
     <<"m", "a", "t", "e", "r", "i", "a", "l", "-", "s", "y", "m", "b",
          "o", "l", "s">>,
     <<"s", "i", "m", "p", "l", "e", "-", "i", "c", "o", "n", "s">>}

\* the front-matter with the published date written without leading zeros
FrontMatterShortDate ==
    <<\* title: Golang ?????? WaitGroup ? errgroup ??????????
      <<"t", "i", "t", "l", "e", ":", " ", "G", "o", "l", "a", "n", "g",
          " ", "U+5E76", "U+53D1", "U+63A7", "U+5236", "U+FF1A", "U+4ECE",
          " ", "W", "a", "i", "t", "G", "r", "o", "u", "p", " ", "U+5230",
          " ", "e", "r", "r", "g", "r", "o", "u", "p", " ", "U+7684",
          "U+6DF1", "U+5EA6", "U+5B9E", "U+8DF5", "U+4E0E", "U+907F",
          "U+5751", "U+6307", "U+5357">>,
      \* description: ???? errgroup ??????? WaitGroup ????????????????????????????? Demo?
      <<"d", "e", "s", "c", "r", "i", "p", "t", "i", "o", "n", ":", " ",
          "U+6DF1", "U+5EA6", "U+89E3", "U+6790", " ", "e", "r", "r", "g",
          "r", "o", "u", "p", " ", "U+5DE5", "U+4F5C", "U+673A", "U+5236",
          "U+FF0C", "U+5BF9", "U+6BD4", " ", "W", "a", "i", "t", "G", "r",
          "o", "u", "p", " ", "U+63ED", "U+793A", "U+5176", "U+5728",
          "U+9519", "U+8BEF", "U+6355", "U+83B7", "U+3001", "U+751F",
          "U+547D", "U+5468", "U+671F", "U+63A7", "U+5236", "U+53CA",
          "U+5E76", "U+53D1", "U+9650", "U+6D41", "U+65B9", "U+9762",
          "U+7684", "U+4F18", "U+52BF", "U+FF0C", "U+9644", "U+5B9E",
          "U+6218", " ", "D", "e", "m", "o", "U+3002">>,
      \* published: 2026-2-6
      <<"p", "u", "b", "l", "i", "s", "h", "e", "d", ":", " ", "2", "0",
          "2", "6", "-", "2", "-", "6">>,
      \* updated: 2026-02-06
      <<"u", "p", "d", "a", "t", "e", "d", ":", " ", "2", "0", "2", "6",
          "-", "0", "2", "-", "0", "6">>,
      \* draft: false
      <<"d", "r", "a", "f", "t", ":", " ", "f", "a", "l", "s", "e">>,
      \* category: ????
      <<"c", "a", "t", "e", "g", "o", "r", "y", ":", " ", "U+6280",
          "U+672F", "U+7B14", "U+8BB0">>,
      \* tags: [Golang, ????, errgroup, WaitGroup, context, sync, ????, ????, ????]
      <<"t", "a", "g", "s", ":", " ", "[", "G", "o", "l", "a", "n", "g",
          ",", " ", "U+5E76", "U+53D1", "U+7F16", "U+7A0B", ",", " ", "e",
          "r", "r", "g", "r", "o", "u", "p", ",", " ", "W", "a", "i", "t",
          "G", "r", "o", "u", "p", ",", " ", "c", "o", "n", "t", "e", "x",
          "t", ",", " ", "s", "y", "n", "c", ",", " ", "U+5E76", "U+53D1",
          "U+63A7", "U+5236", ",", " ", "U+6027", "U+80FD", "U+4F18",
          "U+5316", ",", " ", "U+5B9E", "U+6218", "U+6307", "U+5357", "]">>,
      \* pinned: false
      <<"p", "i", "n", "n", "e", "d", ":", " ", "f", "a", "l", "s", "e">>,
      \* author: Shuai
      <<"a", "u", "t", "h", "o", "r", ":", " ", "S", "h", "u", "a", "i">>,
      \* licenseName: "CC BY 4.0"
      <<"l", "i", "c", "e", "n", "s", "e", "N", "a", "m", "e", ":", " ",
          "\"", "C", "C", " ", "B", "Y", " ", "4", ".", "0", "\"">>,
      \* sourceLink: ""
      <<"s", "o", "u", "r", "c", "e", "L", "i", "n", "k", ":", " ", "\"",
          "\"">>,
      \* image: ./images/golang_errgroup.png
      <<"i", "m", "a", "g", "e", ":", " ", ".", "/", "i", "m", "a", "g",
          "e", "s", "/", "g", "o", "l", "a", "n", "g", "_", "e", "r", "r",
          "g", "r", "o", "u", "p", ".", "p", "n", "g">>,
      \* slug: golang-errgroup
      <<"s", "l", "u", "g", ":", " ", "g", "o", "l", "a", "n", "g", "-",
          "e", "r", "r", "g", "r", "o", "u", "p">>>>

\* the front-matter of the errgroup post: the lines between the two ---
FrontMatter ==
    <<\* title: Golang ?????? WaitGroup ? errgroup ??????????
      <<"t", "i", "t", "l", "e", ":", " ", "G", "o", "l", "a", "n", "g",
          " ", "U+5E76", "U+53D1", "U+63A7", "U+5236", "U+FF1A", "U+4ECE",
          " ", "W", "a", "i", "t", "G", "r", "o", "u", "p", " ", "U+5230",
          " ", "e", "r", "r", "g", "r", "o", "u", "p", " ", "U+7684",
          "U+6DF1", "U+5EA6", "U+5B9E", "U+8DF5", "U+4E0E", "U+907F",
          "U+5751", "U+6307", "U+5357">>,
      \* description: ???? errgroup ??????? WaitGroup ????????????????????????????? Demo?
      <<"d", "e", "s", "c", "r", "i", "p", "t", "i", "o", "n", ":", " ",
          "U+6DF1", "U+5EA6", "U+89E3", "U+6790", " ", "e", "r", "r", "g",
          "r", "o", "u", "p", " ", "U+5DE5", "U+4F5C", "U+673A", "U+5236",
          "U+FF0C", "U+5BF9", "U+6BD4", " ", "W", "a", "i", "t", "G", "r",
          "o", "u", "p", " ", "U+63ED", "U+793A", "U+5176", "U+5728",
          "U+9519", "U+8BEF", "U+6355", "U+83B7", "U+3001", "U+751F",
          "U+547D", "U+5468", "U+671F", "U+63A7", "U+5236", "U+53CA",
          "U+5E76", "U+53D1", "U+9650", "U+6D41", "U+65B9", "U+9762",
          "U+7684", "U+4F18", "U+52BF", "U+FF0C", "U+9644", "U+5B9E",
          "U+6218", " ", "D", "e", "m", "o", "U+3002">>,
      \* published: 2026-02-06
      <<"p", "u", "b", "l", "i", "s", "h", "e", "d", ":", " ", "2", "0",
          "2", "6", "-", "0", "2", "-", "0", "6">>,
      \* updated: 2026-02-06
      <<"u", "p", "d", "a", "t", "e", "d", ":", " ", "2", "0", "2", "6",
          "-", "0", "2", "-", "0", "6">>,
      \* draft: false
      <<"d", "r", "a", "f", "t", ":", " ", "f", "a", "l", "s", "e">>,
      \* category: ????
      <<"c", "a", "t", "e", "g", "o", "r", "y", ":", " ", "U+6280",
          "U+672F", "U+7B14", "U+8BB0">>,
      \* tags: [Golang, ????, errgroup, WaitGroup, context, sync, ????, ????, ????]
      <<"t", "a", "g", "s", ":", " ", "[", "G", "o", "l", "a", "n", "g",
          ",", " ", "U+5E76", "U+53D1", "U+7F16", "U+7A0B", ",", " ", "e",
          "r", "r", "g", "r", "o", "u", "p", ",", " ", "W", "a", "i", "t",
          "G", "r", "o", "u", "p", ",", " ", "c", "o", "n", "t", "e", "x",
          "t", ",", " ", "s", "y", "n", "c", ",", " ", "U+5E76", "U+53D1",
          "U+63A7", "U+5236", ",", " ", "U+6027", "U+80FD", "U+4F18",
          "U+5316", ",", " ", "U+5B9E", "U+6218", "U+6307", "U+5357", "]">>,
      \* pinned: false
      <<"p", "i", "n", "n", "e", "d", ":", " ", "f", "a", "l", "s", "e">>,
      \* author: Shuai
      <<"a", "u", "t", "h", "o", "r", ":", " ", "S", "h", "u", "a", "i">>,
      \* licenseName: "CC BY 4.0"
      <<"l", "i", "c", "e", "n", "s", "e", "N", "a", "m", "e", ":", " ",
          "\"", "C", "C", " ", "B", "Y", " ", "4", ".", "0", "\"">>,
      \* sourceLink: ""
      <<"s", "o", "u", "r", "c", "e", "L", "i", "n", "k", ":", " ", "\"",
          "\"">>,
      \* image: ./images/golang_errgroup.png
      <<"i", "m", "a", "g", "e", ":", " ", ".", "/", "i", "m", "a", "g",
          "e", "s", "/", "g", "o", "l", "a", "n", "g", "_", "e", "r", "r",
          "g", "r", "o", "u", "p", ".", "p", "n", "g">>,
      \* slug: golang-errgroup
      <<"s", "l", "u", "g", ":", " ", "g", "o", "l", "a", "n", "g", "-",
          "e", "r", "r", "g", "r", "o", "u", "p">>>>

(***************************************************************************)
(* Reading the content: every links[].icon, links[].url and front-matter   *)
(* line is scanned character by character and classified                   *)
(***************************************************************************)

Chars_true == <<"t", "r", "u", "e">>

Chars_false == <<"f", "a", "l", "s", "e">>

Chars_null == <<"n", "u", "l", "l">>

\* what is read, in order: per link its icon and its url, then the
\* front-matter lines
Documents ==
    [k \in 1..(2 * Len(Links)) |->
        IF k % 2 = 1
           THEN [kind |-> "icon", of |-> (k + 1) \div 2,
                 text |-> Links[(k + 1) \div 2].icon]
           ELSE [kind |-> "url", of |-> k \div 2, text |-> Links[k \div 2].url]]
    \o [k \in 1..Len(FrontMatter) |->
          [kind |-> "field", of |-> k, text |-> FrontMatter[k]]]

AlphaNum == Letter \cup Digit
\* the characters of the local part of a mail address
LocalChar == AlphaNum \cup {".", "_", "-", "+"}
\* the printable ASCII characters a URL or a path is written with
UrlChar ==
    AlphaNum \cup {"-", ".", "_", "~", ":", "/", "?", "#", "[", "]", "@", "!",
                   "$", "&", "'", "(", ")", "*", "+", ",", ";", "=", "%"}

\* one step of the recogniser of "scheme://host..." | "local@domain.tld" |
\* "/path"
UrlStep(s, ch) ==
    CASE s = "start" ->
            IF ch \in Letter THEN "word"
            ELSE IF ch = "/" THEN "path"
            ELSE IF ch \in LocalChar THEN "local" ELSE "bad"
      [] s = "word" ->
            IF ch \in AlphaNum \cup {"+", "-", "."} THEN "word"
            ELSE IF ch = ":" THEN "colon"
            ELSE IF ch = "@" THEN "at"
            ELSE IF ch \in LocalChar THEN "local" ELSE "bad"
      [] s = "local" ->
            IF ch \in LocalChar THEN "local"
            ELSE IF ch = "@" THEN "at" ELSE "bad"
      [] s = "at" -> IF ch \in AlphaNum THEN "domain" ELSE "bad"
      [] s = "domain" ->
            IF ch \in AlphaNum \cup {"-"} THEN "domain"
            ELSE IF ch = "." THEN "dot" ELSE "bad"
      [] s = "dot" -> IF ch \in AlphaNum THEN "tld" ELSE "bad"
      [] s = "tld" ->
            IF ch \in AlphaNum \cup {"-"} THEN "tld"
            ELSE IF ch = "." THEN "dot" ELSE "bad"
      [] s = "colon" -> IF ch = "/" THEN "slash" ELSE "bad"
      [] s = "slash" -> IF ch = "/" THEN "slashes" ELSE "bad"
      [] s = "slashes" -> IF ch \in AlphaNum THEN "host" ELSE "bad"
      [] s = "host" ->
            IF ch \in AlphaNum \cup {"-", "."} THEN "host"
            ELSE IF ch \in {":", "/", "?", "#"} THEN "rest" ELSE "bad"
      [] s = "rest" -> IF ch \in UrlChar THEN "rest" ELSE "bad"
      [] s = "path" -> IF ch \in UrlChar THEN "path" ELSE "bad"
      [] OTHER -> "bad"

UrlClass(s) ==
    CASE s \in {"host", "rest"} -> "url"
      [] s = "tld" -> "mail"
      [] s = "path" -> "path"
      [] OTHER -> "invalid"

\* one step of the recogniser of "<set>:<name>"
IconStep(s, ch) ==
    CASE s = "start" -> IF ch \in AlphaNum THEN "set" ELSE "bad"
      [] s = "set" ->
            IF ch \in AlphaNum \cup {"-"} THEN "set"
            ELSE IF ch = ":" THEN "sep" ELSE "bad"
      [] s = "sep" -> IF ch \in AlphaNum THEN "name" ELSE "bad"
      [] s = "name" -> IF ch \in AlphaNum \cup {"-"} THEN "name" ELSE "bad"
      [] OTHER -> "bad"

IconClass(s) == IF s = "name" THEN "icon" ELSE "invalid"

\* one step of the recogniser of a front-matter line "key: value"
FieldStep(s, ch) ==
    CASE s = "start" -> IF ch \in Letter THEN "key" ELSE "bad"
      [] s = "key" ->
            IF ch \in AlphaNum \cup {"_"} THEN "key"
            ELSE IF ch = ":" THEN "colon" ELSE "bad"
      [] s = "colon" -> IF ch = " " THEN "value" ELSE "bad"
      [] s = "value" -> "value"
      [] OTHER -> "bad"

RECURSIVE Trim(_)
Trim(s) ==
    IF s = <<>> THEN s
    ELSE IF Head(s) = " " THEN Trim(Tail(s))
    ELSE IF s[Len(s)] = " " THEN Trim(SubSeq(s, 1, Len(s) - 1))
    ELSE s

RECURSIVE Split(_)
\* the items of a flow sequence, split at the commas
Split(s) ==
    IF \A k \in 1..Len(s) : s[k] # ","
       THEN <<Trim(s)>>
       ELSE LET k == CHOOSE k \in 1..Len(s) :
                        s[k] = "," /\ \A j \in 1..(k - 1) : s[j] # ","
            IN  <<Trim(SubSeq(s, 1, k - 1))>> \o Split(SubSeq(s, k + 1, Len(s)))

IsDate(v) ==
    /\ Len(v) = 10
    /\ \A k \in {1, 2, 3, 4, 6, 7, 9, 10} : v[k] \in Digit
    /\ v[5] = "-" /\ v[8] = "-"

\* the type a YAML scalar written without quotes resolves to
PlainType(v) ==
    IF v = <<>> \/ v = Chars_null THEN "null"
    ELSE IF v \in {Chars_true, Chars_false} THEN "bool"
    ELSE IF IsDate(v) THEN "date"
    ELSE IF \A k \in 1..Len(v) : v[k] \in Digit THEN "number"
    ELSE "string"

\* the type of a front-matter value
ValueType(v) ==
    IF Len(v) >= 2 /\ v[1] = "\"" /\ v[Len(v)] = "\"" THEN "string"
    ELSE IF Len(v) >= 2 /\ v[1] = "[" /\ v[Len(v)] = "]"
       THEN LET items == Split(SubSeq(v, 2, Len(v) - 1))
            IN  IF \A k \in 1..Len(items) : PlainType(items[k]) = "string"
                   THEN "list of strings" ELSE "list"
    ELSE PlainType(v)

FieldClass(s, v) ==
    CASE s = "value" -> ValueType(v)
      [] s = "colon" -> "null"
      [] OTHER -> "invalid"

LintDone == doc > Len(Documents)

\* the next character of an icon identifier is read
ScanIcon ==
    /\ ~LintDone
    /\ Documents[doc].kind = "icon"
    /\ pos < Len(Documents[doc].text)
    /\ LET ch == Documents[doc].text[pos + 1]
       IN  /\ st' = IconStep(st, ch)
           /\ acc' = IF st \in {"start", "set"} /\ ch # ":"
                        THEN Append(acc, ch) ELSE acc
    /\ pos' = pos + 1
    /\ UNCHANGED <<doc, val, verdict, demoVars, limitVars>>

\* the next character of a url is read
ScanUrl ==
    /\ ~LintDone
    /\ Documents[doc].kind = "url"
    /\ pos < Len(Documents[doc].text)
    /\ st' = UrlStep(st, Documents[doc].text[pos + 1])
    /\ pos' = pos + 1
    /\ UNCHANGED <<doc, acc, val, verdict, demoVars, limitVars>>

\* the next character of a front-matter line is read
ScanField ==
    /\ ~LintDone
    /\ Documents[doc].kind = "field"
    /\ pos < Len(Documents[doc].text)
    /\ LET ch == Documents[doc].text[pos + 1]
       IN  /\ st' = FieldStep(st, ch)
           /\ acc' = IF st \in {"start", "key"} /\ ch # ":"
                        THEN Append(acc, ch) ELSE acc
           /\ val' = IF st = "value" THEN Append(val, ch) ELSE val
    /\ pos' = pos + 1
    /\ UNCHANGED <<doc, verdict, demoVars, limitVars>>

\* the end of the text: its class is recorded and the next one is taken up
Classify ==
    /\ ~LintDone
    /\ pos = Len(Documents[doc].text)
    /\ verdict' = Append(verdict,
          [kind |-> Documents[doc].kind,
           of |-> Documents[doc].of,
           key |-> acc,
           class |-> CASE Documents[doc].kind = "icon" -> IconClass(st)
                       [] Documents[doc].kind = "url" -> UrlClass(st)
                       [] OTHER -> FieldClass(st, val)])
    /\ doc' = doc + 1
    /\ pos' = 0
    /\ st' = "start"
    /\ acc' = <<>>
    /\ val' = <<>>
    /\ UNCHANGED <<demoVars, limitVars>>

LintInit ==
    /\ DemoIdle
    /\ LimitIdle
    /\ doc = 1
    /\ pos = 0
    /\ st = "start"
    /\ acc = <<>>
    /\ val = <<>>
    /\ verdict = <<>>

LintNext == ScanIcon \/ ScanUrl \/ ScanField \/ Classify

LintSpec == LintInit /\ [][LintNext]_vars

\* the fields the specification lists, with their types
ClaimedSchema ==
    {[key |-> <<"t", "i", "t", "l", "e">>, type |-> "string"],
     [key |-> <<"d", "e", "s", "c", "r", "i", "p", "t", "i", "o", "n">>, type |-> "string"],
     [key |-> <<"p", "u", "b", "l", "i", "s", "h", "e", "d">>, type |-> "date"],
     [key |-> <<"u", "p", "d", "a", "t", "e", "d">>, type |-> "date"],
     [key |-> <<"d", "r", "a", "f", "t">>, type |-> "bool"],
     [key |-> <<"c", "a", "t", "e", "g", "o", "r", "y">>, type |-> "string"],
     [key |-> <<"t", "a", "g", "s">>, type |-> "list of strings"],
     [key |-> <<"p", "i", "n", "n", "e", "d">>, type |-> "bool"],
     [key |-> <<"a", "u", "t", "h", "o", "r">>, type |-> "string"],
     [key |-> <<"l", "i", "c", "e", "n", "s", "e">>, type |-> "string"],
     [key |-> <<"s", "o", "u", "r", "c", "e", "L", "i", "n", "k">>, type |-> "string"],
     [key |-> <<"i", "m", "a", "g", "e">>, type |-> "string"],
     [key |-> <<"s", "l", "u", "g">>, type |-> "string"]}

\* the same with licenseName for license
WrittenSchema ==
    {[key |-> <<"t", "i", "t", "l", "e">>, type |-> "string"],
     [key |-> <<"d", "e", "s", "c", "r", "i", "p", "t", "i", "o", "n">>, type |-> "string"],
     [key |-> <<"p", "u", "b", "l", "i", "s", "h", "e", "d">>, type |-> "date"],
     [key |-> <<"u", "p", "d", "a", "t", "e", "d">>, type |-> "date"],
     [key |-> <<"d", "r", "a", "f", "t">>, type |-> "bool"],
     [key |-> <<"c", "a", "t", "e", "g", "o", "r", "y">>, type |-> "string"],
     [key |-> <<"t", "a", "g", "s">>, type |-> "list of strings"],
     [key |-> <<"p", "i", "n", "n", "e", "d">>, type |-> "bool"],
     [key |-> <<"a", "u", "t", "h", "o", "r">>, type |-> "string"],
     [key |-> <<"l", "i", "c", "e", "n", "s", "e", "N", "a", "m", "e">>, type |-> "string"],
     [key |-> <<"s", "o", "u", "r", "c", "e", "L", "i", "n", "k">>, type |-> "string"],
     [key |-> <<"i", "m", "a", "g", "e">>, type |-> "string"],
     [key |-> <<"s", "l", "u", "g">>, type |-> "string"]}

Chars_licenseName == <<"l", "i", "c", "e", "n", "s", "e", "N", "a", "m", "e">>

Verdicts(kind) == {k \in 1..Len(verdict) : verdict[k].kind = kind}

FieldsRead ==
    {[key |-> verdict[k].key, type |-> verdict[k].class] :
        k \in Verdicts("field")}

\* C1 (as claimed): the url of every entry of profileConfig.links is a
\* syntactically valid URL (scheme plus host) or a mail address.
C1_EveryUrlIsUrlOrMail ==
    \A k \in Verdicts("url") : verdict[k].class \in {"url", "mail"}

\* C1 (amended): the url of every entry of profileConfig.links is a URL
\* (scheme plus host), a mail address or a path from the site root: Bilibli
\* and GitHub are URLs, Email is a mail address, RSS is the path /rss/.
C1_EveryUrlIsUrlMailOrPath ==
    \A k \in Verdicts("url") :
        /\ verdict[k].class \in {"url", "mail", "path"}
        /\ verdict[k].class = <<"url", "url", "mail", "path">>[verdict[k].of]

C1_Witness ==
    /\ Cardinality(Verdicts("url")) = Len(Links)
    /\ \E k \in Verdicts("url") : verdict[k].class = "path"

\* C2: the icon of every entry of profileConfig.links has the form
\* <set>:<name> with a non-empty name, and <set> is one of the icon sets the
\* configuration names as preinstalled.
C2_EveryIconFromPreinstalledSet ==
    \A k \in Verdicts("icon") :
        /\ verdict[k].class = "icon"
        /\ verdict[k].key \in PreinstalledIconSets

C2_Witness ==
    /\ Cardinality(Verdicts("icon")) = Len(Links)
    /\ \E k \in Verdicts("icon") :
          verdict[k].key = <<"f", "a", "6", "-", "s", "o", "l", "i", "d">>

\* C3 (as claimed): the front-matter holds every field of the schema, license
\* among them, each with its type.
C3_ClaimedFieldsPresentAndTyped ==
    LintDone => ClaimedSchema \subseteq FieldsRead

\* C3 (amended): the front-matter holds title, description, published,
\* updated, draft, category, tags, pinned, author, licenseName (not license),
\* sourceLink, image and slug; published and updated are dates, draft and
\* pinned are booleans, tags is a list of strings, the others are strings;
\* and it holds no other line.
C3_WrittenFieldsPresentAndTyped ==
    /\ LintDone => WrittenSchema \subseteq FieldsRead
    /\ FieldsRead \subseteq WrittenSchema

C3_Witness ==
    /\ LintDone
    /\ [key |-> Chars_licenseName, type |-> "string"] \in FieldsRead

====
